---- MODULE Spec2Model ----
(***************************************************************************)
(* Intent-based networking scripts:                                        *)
(*   intent_parser.py        intent document -> configuration document     *)
(*   netconf_push.py         real NETCONF push with simulated fallback     *)
(*   mock_netconf_server.py  TCP banner responder                          *)
(*   test_netconf_conn.py    connectivity prober                           *)
(*                                                                         *)
(* Text is a sequence of one-character strings.  The empty sequence stands *)
(* for both Python's "" and None of Element.text: the code only ever tests *)
(* the truthiness of a text, and ElementTree writes both as <tag />.       *)
(***************************************************************************)
EXTENDS Integers, Sequences, FiniteSets, TLC

\* ------------------------------------------------------------------ bounds
MaxVlans == 2
MaxConns == 2
MaxCaps == 3

\* ------------------------------------------------------- input universes
eng == <<"e", "n", "g">>
guest == <<"g", "u", "e", "s", "t">>
padded == <<" ", "l", "a", "b", " ">>
blank == <<" ">>
amp == <<"r", "&", "d">>
ghost == <<"z">>

\* VLAN names an intent file may use as keys of "vlans" (any JSON string)
VlanNames == {eng, guest, padded, blank, amp, <<>>}

\* VLAN identifiers
VlanIds == {10, 20}

trusted == <<"t", "r", "u", "s", "t", "e", "d">>
restricted == <<"r", "e", "s", "t", "r", "i", "c", "t", "e", "d">>

\* keys and labels of "policies"; ghost is never a VLAN name
PolicyKeys == {eng, ghost}
PolicyLabels == {trusted}

NameSeqs(n) == {s \in [1..n -> [name : VlanNames, id : VlanIds]] :
                   \A i, j \in 1..n : i # j => s[i].name # s[j].name}

\* a dict keeps its keys unique and iterates in insertion order
VlanMappings == UNION {NameSeqs(n) : n \in 0..MaxVlans}

PolicyMappings == UNION {[K -> PolicyLabels] : K \in SUBSET PolicyKeys}

Intents == [vlans : VlanMappings, policies : PolicyMappings]

\* ------------------------------------------------------------ text helpers
Digits == <<"0", "1", "2", "3", "4", "5", "6", "7", "8", "9">>

RECURSIVE str(_)
\* str(vlan_id) of a non-negative int: canonical decimal rendering
str(n) == IF n < 10 THEN <<Digits[n + 1]>>
          ELSE str(n \div 10) \o <<Digits[(n % 10) + 1]>>

IsSpace(c) == c = " "

RECURSIVE lstrip(_)
lstrip(s) == IF s # <<>> /\ IsSpace(Head(s)) THEN lstrip(Tail(s)) ELSE s

RECURSIVE rstrip(_)
rstrip(s) == IF s # <<>> /\ IsSpace(s[Len(s)])
             THEN rstrip(SubSeq(s, 1, Len(s) - 1)) ELSE s

\* str.strip()
strip(s) == rstrip(lstrip(s))

\* ElementTree's _escape_cdata; an entity is kept as one symbol
EscapeChar(c) == CASE c = "&" -> "&amp;"
                   [] c = "<" -> "&lt;"
                   [] c = ">" -> "&gt;"
                   [] OTHER -> c

Escape(s) == [i \in 1..Len(s) |-> EscapeChar(s[i])]

\* expat's entity expansion
UnescapeChar(c) == CASE c = "&amp;" -> "&"
                     [] c = "&lt;" -> "<"
                     [] c = "&gt;" -> ">"
                     [] OTHER -> c

Unescape(s) == [i \in 1..Len(s) |-> UnescapeChar(s[i])]

\* --------------------------------------------------------- element trees
ns == "urn:example:campus-lan"

\* Element(tag, {"xmlns": x}) / SubElement(parent, tag)
Element(tag, xmlns) == [tag |-> tag, xmlns |-> xmlns, text |-> <<>>, children |-> <<>>]

WithText(e, t) == [e EXCEPT !.text = t]

WithChildren(e, cs) == [e EXCEPT !.children = cs]

\* a compiler that forgets the default label
PolicyOfNoDefault(policies, vlan_name) ==
    IF vlan_name \in DOMAIN policies THEN policies[vlan_name] ELSE <<>>

\* policies.get(vlan_name, "restricted")
PolicyOf(policies, vlan_name) ==
    IF vlan_name \in DOMAIN policies THEN policies[vlan_name] ELSE restricted

\* one <vlan> of the loop body of build_xml_from_intent
VlanElem(policies, v) ==
    WithChildren(Element("vlan", ""),
       << WithText(Element("id", ""), str(v.id)),
          WithText(Element("name", ""), v.name),
          WithText(Element("policy", ""), PolicyOf(policies, v.name)) >>)

\* the tree build_xml_from_intent builds before serialising it
BuildTree(intent_data) ==
    WithChildren(Element("campus-network", ns),
       [i \in 1..Len(intent_data.vlans) |->
            VlanElem(intent_data.policies, intent_data.vlans[i])])

\* ---------------------------------------------------------- serialisation
Tok(k, tag, xmlns, s) == [k |-> k, tag |-> tag, xmlns |-> xmlns, s |-> s]

RECURSIVE Serialize(_)
RECURSIVE SerializeAll(_)
\* ElementTree._serialize_xml with short_empty_elements
Serialize(e) ==
    IF e.text = <<>> /\ e.children = <<>>
    THEN << Tok("empty", e.tag, e.xmlns, <<>>) >>
    ELSE << Tok("start", e.tag, e.xmlns, <<>>) >>
         \o (IF e.text # <<>> THEN << Tok("text", "", "", Escape(e.text)) >> ELSE <<>>)
         \o SerializeAll(e.children)
         \o << Tok("end", e.tag, "", <<>>) >>

SerializeAll(es) ==
    IF es = <<>> THEN <<>> ELSE Serialize(Head(es)) \o SerializeAll(Tail(es))

\* build_xml_from_intent: the document text, as its sequence of XML tokens
build_xml_from_intent(intent_data) == Serialize(BuildTree(intent_data))

\* ----------------------------------------------------------------- parsing
\* the tag ElementTree gives an element parsed inside default namespace n
Qualify(n, tag) == IF n = "" THEN tag ELSE "{" \o n \o "}" \o tag

ParseError == [ok |-> FALSE, root |-> Element("", "")]

Frame(raw, n, elem) == [raw |-> raw, ns |-> n, elem |-> elem]

\* close the innermost open element: attach it to its parent, or finish
Pop(stack) ==
    LET top == stack[Len(stack)]
        rest == SubSeq(stack, 1, Len(stack) - 1)
    IN  IF rest = <<>> THEN [stack |-> <<>>, done |-> <<top.elem>>]
        ELSE LET par == rest[Len(rest)]
                 par2 == [par EXCEPT !.elem.children = Append(@, top.elem)]
             IN  [stack |-> [rest EXCEPT ![Len(rest)] = par2], done |-> <<>>]

RECURSIVE ParseFrom(_, _, _, _)
\* ET.fromstring: expat events folded by TreeBuilder, namespace-aware
ParseFrom(toks, i, stack, done) ==
    IF i > Len(toks)
    THEN IF stack = <<>> /\ done # <<>> THEN [ok |-> TRUE, root |-> done[1]]
         ELSE ParseError
    ELSE
      LET t == toks[i] IN
      IF done # <<>> THEN ParseError
      ELSE IF t.k \in {"start", "empty"} THEN
        LET inherited == IF stack = <<>> THEN "" ELSE stack[Len(stack)].ns
            n == IF t.xmlns # "" THEN t.xmlns ELSE inherited
            pushed == Append(stack, Frame(t.tag, n, Element(Qualify(n, t.tag), "")))
        IN  IF t.k = "start" THEN ParseFrom(toks, i + 1, pushed, <<>>)
            ELSE LET p == Pop(pushed) IN ParseFrom(toks, i + 1, p.stack, p.done)
      ELSE IF t.k = "text" THEN
        IF stack = <<>> THEN ParseError
        ELSE LET top == stack[Len(stack)] IN
             IF top.elem.children = <<>>
             THEN ParseFrom(toks, i + 1,
                     [stack EXCEPT ![Len(stack)].elem.text = @ \o Unescape(t.s)], <<>>)
             ELSE ParseFrom(toks, i + 1, stack, <<>>)
      ELSE IF t.k = "end" THEN
        IF stack = <<>> \/ stack[Len(stack)].raw # t.tag THEN ParseError
        ELSE LET p == Pop(stack) IN ParseFrom(toks, i + 1, p.stack, p.done)
      ELSE ParseError

fromstring(xml) == ParseFrom(xml, 1, <<>>, <<>>)

RECURSIVE Descendants(_)
RECURSIVE DescendantsAll(_)
\* every element below e, in document order
Descendants(e) == DescendantsAll(e.children)

DescendantsAll(es) ==
    IF es = <<>> THEN <<>>
    ELSE <<Head(es)>> \o Descendants(Head(es)) \o DescendantsAll(Tail(es))

HasTag(e, tag) == e.tag = tag

\* root.findall(".//vlan"): an unprefixed path step matches the bare tag
findall(root, tag) == SelectSeq(Descendants(root), LAMBDA e : HasTag(e, tag))

\* vlan.find("id"): the matching direct children (empty = None)
find(e, tag) == SelectSeq(e.children, LAMBDA c : HasTag(c, tag))

placeholder == <<"?">>

\* el.text.strip() if el is not None and el.text else "?"
TextOrPlaceholder(found) ==
    IF found # <<>> /\ found[1].text # <<>> THEN strip(found[1].text) ELSE placeholder

\* the (vlan_id, name) pair printed for one <vlan>
Extract(vlan) == << TextOrPlaceholder(find(vlan, "id")), TextOrPlaceholder(find(vlan, "name")) >>

\* the loop of simulate_netconf_push: the records it prints, or the generic line
SimRecords(xml) ==
    LET p == fromstring(xml) IN
    IF p.ok
    THEN LET vs == findall(p.root, "vlan") IN
         [generic |-> FALSE, records |-> [i \in 1..Len(vs) |-> Extract(vs[i])]]
    ELSE [generic |-> TRUE, records |-> <<>>]

\* ------------------------------------------------------------------- state
VARIABLES
    intent_data,   \* intent_parser.main: the loaded intent (<<>> before the run)
    xml_str,       \* intent_parser.main: the generated document (<<>> = none)
    parser_rc,     \* exit status of intent_parser.main (-1 = has not run)
    store,         \* generated_config.xml: <<>> when absent, else <<document>>
    pc,            \* position of netconf_push.main
    xml_config,    \* netconf_push.main: what read_generated_xml returned (<<>> = None)
    session,       \* the ncclient session of push_via_netconf: none, open, closed
    connects,      \* number of manager.connect calls of the push
    realReturns,   \* number of times push_via_netconf returned True to main
    simCalls,      \* number of simulate_netconf_push calls
    out,           \* what the push reported, in order
    applied,       \* the (id, name) records the Simulated Applier printed
    rc,            \* exit status of netconf_push.main (-1 = still running)
    conn,          \* mock server: per connection, its socket state and events
    backlog,       \* mock server: connections waiting in the listen queue
    hpc,           \* mock server: position of each connection's Handler.handle
    ppc,           \* test_netconf_conn.main: position
    psession,      \* prober: its ncclient session: none, open, closed
    pfault,        \* prober: the failure the environment produced (<<>> = none)
    pcaps,         \* prober: m.server_capabilities of the opened session
    plisted,       \* prober: capabilities printed so far
    pout,          \* prober: what it reported, in order
    perror,        \* prober: the error description it printed (<<>> = none)
    prc            \* exit status of test_netconf_conn.main (-1 = still running)

parserVars == <<intent_data, xml_str, parser_rc>>

pushVars == <<pc, xml_config, session, connects, realReturns, simCalls, out, applied, rc>>

serverVars == <<conn, backlog, hpc>>

proberVars == <<ppc, psession, pfault, pcaps, plisted, pout, perror, prc>>

vars == <<parserVars, store, pushVars, serverVars, proberVars>>

Conns == 1..MaxConns

InitParser == intent_data = <<>> /\ xml_str = <<>> /\ parser_rc = -1 /\ store = <<>>

InitPush ==
    /\ pc = "idle" /\ xml_config = <<>> /\ session = "none"
    /\ connects = 0 /\ realReturns = 0 /\ simCalls = 0 /\ out = <<>> /\ applied = <<>> /\ rc = -1

InitServer ==
    /\ conn = [c \in Conns |-> [st |-> "new", sent |-> <<>>, ev |-> <<>>]]
    /\ backlog = <<>>
    /\ hpc = [c \in Conns |-> "none"]

InitProber ==
    /\ ppc = "import" /\ psession = "none" /\ pfault = <<>> /\ pcaps = <<>> /\ plisted = <<>>
    /\ pout = <<>> /\ perror = <<>> /\ prc = -1

Init == InitParser /\ InitPush /\ InitServer /\ InitProber

\* ----------------------------------------------------- intent_parser.main
\* intent file missing, unreadable JSON, or the output not writable: return 1
ParserFails ==
    /\ parser_rc = -1 /\ pc = "idle"
    /\ parser_rc' = 1
    /\ UNCHANGED <<intent_data, xml_str, store, pushVars, serverVars, proberVars>>

\* load_intent, build_xml_from_intent, save_xml (whole-file overwrite), return 0
ParserMain ==
    /\ parser_rc = -1 /\ pc = "idle"
    /\ \E i \in Intents :
          /\ intent_data' = <<i>>
          /\ xml_str' = <<build_xml_from_intent(i)>>
          /\ store' = <<build_xml_from_intent(i)>>
    /\ parser_rc' = 0
    /\ UNCHANGED <<pushVars, serverVars, proberVars>>

\* documents somebody else left in generated_config.xml
Unclosed == << Tok("start", "campus-network", ns, <<>>) >>

HandWritten ==
    Serialize(WithChildren(Element("campus-network", ""),
       << WithChildren(Element("vlan", ""),
             << WithText(Element("id", ""), str(10)),
                WithText(Element("name", ""), padded) >>),
          WithChildren(Element("vlan", ""),
             << WithText(Element("name", ""), blank) >>),
          WithChildren(Element("vlan", ""), << Element("id", "") >>) >>))

ForeignDocs == {Unclosed, HandWritten}

\* the file is edited or replaced outside the compiler before the push reads it
ForeignWrite ==
    /\ pc = "idle"
    /\ \E d \in ForeignDocs : store' = <<d>>
    /\ UNCHANGED <<parserVars, pushVars, serverVars, proberVars>>

\* ------------------------------------------------------ netconf_push.main
MissingPrerequisite == 2

\* a main that does not test for None
AfterReadUnchecked(xml) == "import"

\* main, lines 111-113: where main goes once read_generated_xml returned
AfterRead(xml) == IF xml = <<>> THEN "done" ELSE "import"

\* read_generated_xml and the None test of main
Main_Read ==
    /\ pc = "idle"
    /\ xml_config' = store
    /\ pc' = AfterRead(store)
    /\ IF AfterRead(store) = "done"
       THEN /\ out' = Append(out, "NOT_FOUND")
            /\ rc' = MissingPrerequisite
       ELSE UNCHANGED <<out, rc>>
    /\ UNCHANGED <<parserVars, store, session, connects, realReturns, simCalls,
                   applied, serverVars, proberVars>>

\* a main that lacks the return after a successful push
MainAfterPushNoReturn(pushed) == "fallback"

\* main, lines 121-124: return 0 if push_via_netconf(...) else go on to simulate
MainAfterPush(pushed) == IF pushed THEN "done" ELSE "fallback"

\* a push that only guards the import and the connect
OnRealErrorNarrow(stage) ==
    IF stage \in {"import", "connect"} THEN MainAfterPush(FALSE) ELSE "raised"

\* the two except clauses of push_via_netconf: log and return False to main
OnRealError(stage) == MainAfterPush(FALSE)

\* from ncclient import manager
Push_Import ==
    /\ pc = "import"
    /\ \E available \in BOOLEAN :
          IF available
          THEN pc' = "connect" /\ out' = out
          ELSE pc' = OnRealError("import") /\ out' = Append(out, "NCCLIENT_UNAVAILABLE")
    /\ UNCHANGED <<parserVars, store, xml_config, session, connects, realReturns,
                   simCalls, applied, rc, serverVars, proberVars>>

ConnectResults == {"ok", "refused", "auth_failed", "timeout"}

\* manager.connect(...) entering the with block
Push_Connect ==
    /\ pc = "connect"
    /\ connects' = connects + 1
    /\ \E r \in ConnectResults :
          IF r = "ok"
          THEN /\ session' = "open"
               /\ out' = Append(out, "CONNECTED")
               /\ pc' = "edit"
          ELSE /\ session' = session
               /\ out' = Append(out, "REAL_FAILED")
               /\ pc' = OnRealError("connect")
    /\ UNCHANGED <<parserVars, store, xml_config, realReturns, simCalls, applied, rc,
                   serverVars, proberVars>>

EditResults == {"reply", "rpc_error", "timeout"}

\* m.edit_config(target="running", config=...) and the REAL report
Push_EditConfig ==
    /\ pc = "edit"
    /\ \E r \in EditResults :
          IF r = "reply"
          THEN /\ out' = Append(out, "REAL")
               /\ pc' = "exit"
               /\ session' = session
          ELSE /\ out' = Append(out, "REAL_FAILED")
               /\ pc' = OnRealError("edit")
               /\ session' = "closed"
    /\ UNCHANGED <<parserVars, store, xml_config, connects, realReturns, simCalls,
                   applied, rc, serverVars, proberVars>>

CloseResults == {"ok", "error"}

\* return True leaves the with block: Manager.__exit__ closes the session; an
\* exception it raises replaces the return and lands in except Exception
Push_Exit ==
    /\ pc = "exit"
    /\ session' = "closed"
    /\ \E r \in CloseResults :
          IF r = "ok"
          THEN /\ realReturns' = realReturns + 1
               /\ pc' = MainAfterPush(TRUE)
               /\ rc' = IF MainAfterPush(TRUE) = "done" THEN 0 ELSE rc
               /\ out' = out
          ELSE /\ realReturns' = realReturns
               /\ pc' = OnRealError("exit")
               /\ rc' = rc
               /\ out' = Append(out, "REAL_FAILED")
    /\ UNCHANGED <<parserVars, store, xml_config, connects, simCalls, applied,
                   serverVars, proberVars>>

\* what simulate_netconf_push prints between its banner and "Commit simulated."
SimLines(sim) ==
    IF sim.generic THEN <<"GENERIC">> ELSE [i \in 1..Len(sim.records) |-> "APPLY"]

\* main, lines 124-125: simulate_netconf_push(xml_config); return 0
Main_Fallback ==
    /\ pc = "fallback"
    /\ LET sim == SimRecords(xml_config[1]) IN
          /\ applied' = sim.records
          /\ out' = out \o <<"SIM_BEGIN">> \o SimLines(sim) \o <<"SIMULATED">>
    /\ simCalls' = simCalls + 1
    /\ rc' = 0
    /\ pc' = "done"
    /\ UNCHANGED <<parserVars, store, xml_config, session, connects, realReturns,
                   serverVars, proberVars>>

Next ==
    \/ ParserFails \/ ParserMain \/ ForeignWrite
    \/ Main_Read \/ Push_Import \/ Push_Connect \/ Push_EditConfig \/ Push_Exit
    \/ Main_Fallback

Spec == Init /\ [][Next]_vars

\* ------------------------------------------------- mock_netconf_server.py
base_1_0 == "urn:ietf:params:netconf:base:1.0"

\* the fixed greeting: a <hello> with its namespace and capability list
HELLO_BANNER ==
    [xmlns |-> "urn:ietf:params:xml:ns:netconf:base:1.0", capabilities |-> <<base_1_0>>]

\* socketserver.TCPServer: process_request runs the handler inside the
\* serve_forever loop, which accepts again only after the handler returned
ServerFree == \A c \in Conns : hpc[c] \in {"none", "returned"}

CanAccept == ServerFree /\ backlog # <<>>

Event(c, e) == [conn EXCEPT ![c].ev = Append(@, e)]

\* a peer completes the TCP handshake and waits in the listen queue
Arrive(c) ==
    /\ conn[c].st = "new"
    /\ conn' = [conn EXCEPT ![c].st = "queued"]
    /\ backlog' = Append(backlog, c)
    /\ UNCHANGED <<hpc, parserVars, store, pushVars, proberVars>>

\* get_request: accept() the oldest waiting connection, construct its Handler
Accept ==
    /\ CanAccept
    /\ LET c == Head(backlog) IN
          /\ conn' = [conn EXCEPT ![c].st = "accepted", ![c].ev = Append(@, "accept")]
          /\ hpc' = [hpc EXCEPT ![c] = "send"]
    /\ backlog' = Tail(backlog)
    /\ UNCHANGED <<parserVars, store, pushVars, proberVars>>

SendResults == {"ok", "error"}

\* a handler without the finally clause
AfterSendNoFinally(r) == IF r = "ok" THEN "recv" ELSE "returned"

\* handle, lines 42-43 and the except of line 50: where the handler goes next
AfterSend(r) == IF r = "ok" THEN "recv" ELSE "finally"

\* self.request.sendall(HELLO_BANNER.encode("utf-8")); settimeout(2.0)
Handle_Send(c) ==
    /\ hpc[c] = "send"
    /\ \E r \in SendResults :
          /\ conn' = IF r = "ok"
                     THEN [conn EXCEPT ![c].sent = Append(@, HELLO_BANNER),
                                       ![c].ev = Append(@, "greeting")]
                     ELSE Event(c, "send_failed")
          /\ hpc' = [hpc EXCEPT ![c] = AfterSend(r)]
    /\ UNCHANGED <<backlog, parserVars, store, pushVars, proberVars>>

RecvResults == {"read_data", "read_empty", "read_timeout", "read_error"}

\* data = self.request.recv(4096) under the 2 s timeout, with both excepts
Handle_Recv(c) ==
    /\ hpc[c] = "recv"
    /\ \E r \in RecvResults : conn' = Event(c, r)
    /\ hpc' = [hpc EXCEPT ![c] = "finally"]
    /\ UNCHANGED <<backlog, parserVars, store, pushVars, proberVars>>

ShutdownResults == {"shutdown_ok", "shutdown_failed"}

\* finally: shutdown(SHUT_RDWR) (errors ignored), close(), handler returns
Handle_Finally(c) ==
    /\ hpc[c] = "finally"
    /\ \E r \in ShutdownResults :
          conn' = [conn EXCEPT ![c].st = "closed", ![c].ev = @ \o <<r, "close">>]
    /\ hpc' = [hpc EXCEPT ![c] = "returned"]
    /\ UNCHANGED <<backlog, parserVars, store, pushVars, proberVars>>

NextServer ==
    \/ \E c \in Conns : Arrive(c)
    \/ Accept
    \/ \E c \in Conns : Handle_Send(c)
    \/ \E c \in Conns : Handle_Recv(c)
    \/ \E c \in Conns : Handle_Finally(c)

SpecServer == Init /\ [][NextServer]_vars

\* --------------------------------------------------- test_netconf_conn.py
RuntimeMissingStatus == 2

ConnFailedStatus == 1

\* a prober that swallows the failure
ProbeFailureSwallowed(exc) == [rc |-> 0, report |-> <<>>, line |-> "FAILED"]

\* except Exception as exc: print the exception, return 1
ProbeFailure(exc) == [rc |-> ConnFailedStatus, report |-> <<exc>>, line |-> "FAILED"]

Caps == {base_1_0, "candidate", "xpath"}

\* the capabilities a session may advertise, in the order they are iterated
CapSeqs == UNION {[1..n -> Caps] : n \in 0..MaxCaps}

\* from ncclient import manager
Probe_Import ==
    /\ ppc = "import"
    /\ \E available \in BOOLEAN :
          IF available
          THEN /\ ppc' = "connect"
               /\ UNCHANGED <<pfault, pout, perror, prc>>
          ELSE /\ pfault' = <<"no_runtime">>
               /\ perror' = <<"no_runtime">>
               /\ pout' = Append(pout, "NCCLIENT_UNAVAILABLE")
               /\ prc' = RuntimeMissingStatus
               /\ ppc' = "done"
    /\ UNCHANGED <<psession, pcaps, plisted, parserVars, store, pushVars, serverVars>>

\* manager.connect(...) entering the with block, or raising
Probe_Connect ==
    /\ ppc = "connect"
    /\ \E r \in ConnectResults :
          IF r = "ok"
          THEN /\ \E caps \in CapSeqs : pcaps' = caps
               /\ psession' = "open"
               /\ pout' = Append(pout, "CONNECTED")
               /\ ppc' = "list"
               /\ UNCHANGED <<pfault, perror, prc>>
          ELSE /\ pfault' = <<r>>
               /\ perror' = ProbeFailure(r).report
               /\ pout' = Append(pout, ProbeFailure(r).line)
               /\ prc' = ProbeFailure(r).rc
               /\ ppc' = "done"
               /\ UNCHANGED <<psession, pcaps>>
    /\ UNCHANGED <<plisted, parserVars, store, pushVars, serverVars>>

\* one turn of: for cap in m.server_capabilities: print(cap)
Probe_List ==
    /\ ppc = "list"
    /\ Len(plisted) < Len(pcaps)
    /\ plisted' = Append(plisted, pcaps[Len(plisted) + 1])
    /\ UNCHANGED <<ppc, psession, pfault, pcaps, pout, perror, prc,
                   parserVars, store, pushVars, serverVars>>

\* return 0 leaves the with block: Manager.__exit__ closes the session; an
\* exception it raises replaces the return and lands in except Exception
Probe_Return ==
    /\ ppc = "list"
    /\ Len(plisted) = Len(pcaps)
    /\ psession' = "closed"
    /\ ppc' = "done"
    /\ \E r \in CloseResults :
          IF r = "ok"
          THEN prc' = 0 /\ UNCHANGED <<pfault, perror, pout>>
          ELSE /\ pfault' = <<"close_error">>
               /\ perror' = ProbeFailure("close_error").report
               /\ pout' = Append(pout, ProbeFailure("close_error").line)
               /\ prc' = ProbeFailure("close_error").rc
    /\ UNCHANGED <<pcaps, plisted, parserVars, store, pushVars, serverVars>>

NextProber == Probe_Import \/ Probe_Connect \/ Probe_List \/ Probe_Return

SpecProber == Init /\ [][NextProber]_vars

\* ------------------------------------------------------------------ claims
Count(seq, x) == Cardinality({i \in 1..Len(seq) : seq[i] = x})

Reported(x) == \E i \in 1..Len(out) : out[i] = x

\* the (id, name) pairs of the intent, rendered as the document renders them
OriginalPairs(i) == [k \in 1..Len(i.vlans) |-> <<str(i.vlans[k].id), i.vlans[k].name>>]

C2_PushNeverPropagates ==
    /\ pc # "raised"
    /\ pc = "done" /\ xml_config # <<>> =>
          rc = 0 /\ (realReturns = 1 \/ Reported("SIMULATED"))

\* an edit-config error was swallowed and the push still returned 0
C2_Witness ==
    /\ pc = "done" /\ rc = 0 /\ session = "closed"
    /\ Len(out) >= 4 /\ out[1] = "CONNECTED" /\ out[2] = "REAL_FAILED"
    /\ out[Len(out)] = "SIMULATED"

\* C3: when the store holds no document at push time, the push ends at once
\* with status 2, having opened no session and invoked no Simulated Applier.
C3_MissingDocument ==
    pc # "idle" /\ xml_config = <<>> =>
       /\ pc = "done" /\ rc = 2
       /\ connects = 0 /\ session = "none" /\ simCalls = 0 /\ applied = <<>>
       /\ out = <<"NOT_FOUND">>

\* the push ran against an absent store, although the compiler had been tried
C3_Witness == pc = "done" /\ rc = 2 /\ store = <<>> /\ parser_rc = 1

\* C4: for a compiled document with N vlan entries the Simulated Applier
\* emits exactly N records, the k-th carrying the id of the k-th entry, and
\* then reports success.
C4_SimulatedRecords ==
    pc = "done" /\ simCalls = 1 /\ xml_str # <<>> /\ xml_config = xml_str =>
       LET i == intent_data[1] IN
       /\ Len(applied) = Len(i.vlans)
       /\ \A k \in 1..Len(applied) : applied[k][1] = str(i.vlans[k].id)
       /\ out[Len(out)] = "SIMULATED"

\* C5: the compiled document has one vlan entry per VLAN name, in mapping
\* order, with id, name and policy children in that order holding the mapped
\* id, the name, and the mapped label or "restricted".
C5_CompiledEntries ==
    xml_str # <<>> =>
       LET i == intent_data[1]
           p == fromstring(xml_str[1])
           es == p.root.children
       IN  /\ p.ok
           /\ p.root.tag = Qualify(ns, "campus-network")
           /\ Len(es) = Len(i.vlans)
           /\ \A k \in 1..Len(es) :
                 /\ es[k].tag = Qualify(ns, "vlan")
                 /\ Len(es[k].children) = 3
                 /\ es[k].children[1].tag = Qualify(ns, "id")
                 /\ es[k].children[1].text = str(i.vlans[k].id)
                 /\ es[k].children[2].tag = Qualify(ns, "name")
                 /\ es[k].children[2].text = i.vlans[k].name
                 /\ es[k].children[3].tag = Qualify(ns, "policy")
                 /\ es[k].children[3].text =
                       IF i.vlans[k].name \in DOMAIN i.policies
                       THEN i.policies[i.vlans[k].name] ELSE restricted

\* two VLANs, one with a mapped label and one defaulted, plus a policy entry
\* for a name that is no VLAN
C5_Witness ==
    /\ xml_str # <<>>
    /\ intent_data[1].vlans = <<[name |-> eng, id |-> 10], [name |-> guest, id |-> 20]>>
    /\ DOMAIN intent_data[1].policies = {eng, ghost}

\* C6: extracting the (id, name) pairs from the compiled document the way the
\* push side does gives back the intent's (vlanId, vlanName) pairs.
C6_RoundTrip ==
    xml_str # <<>> =>
       LET sim == SimRecords(xml_str[1]) IN
       ~sim.generic /\ sim.records = OriginalPairs(intent_data[1])

IsRead(e) == e \in RecvResults

\* C7: on every accepted connection the greeting is the first thing the
\* handler does, a read happens only after the greeting was sent, at most one
\* read happens, and a handler that has returned has closed the connection
\* last, whatever the send, the read and the shutdown did.
C7_GreetReadOnceClose ==
    \A c \in Conns :
       LET ev == conn[c].ev IN
       /\ Len(ev) >= 1 => ev[1] = "accept"
       /\ Len(ev) >= 2 => ev[2] \in {"greeting", "send_failed"}
       /\ \A i \in 1..Len(ev) : IsRead(ev[i]) =>
             /\ \E j \in 1..(i - 1) : ev[j] = "greeting"
             /\ conn[c].sent = <<HELLO_BANNER>>
             /\ \E k \in 1..Len(conn[c].sent[1].capabilities) :
                   conn[c].sent[1].capabilities[k] = base_1_0
       /\ Cardinality({i \in 1..Len(ev) : IsRead(ev[i])}) <= 1
       /\ hpc[c] = "returned" =>
             conn[c].st = "closed" /\ ev[Len(ev)] = "close"

\* a handler whose greeting could not be sent has returned
C7_Witness ==
    \E c \in Conns :
       /\ hpc[c] = "returned"
       /\ conn[c].ev = <<"accept", "send_failed", "shutdown_failed", "close">>

\* C8: while a handler waits in its read, a connection waiting in the listen
\* queue can be accepted.
C8_NonBlocking ==
    (\E c \in Conns : hpc[c] = "recv") /\ backlog # <<>> => ENABLED Accept

\* C9: the prober returns 0 only with a session opened and its capabilities
\* listed; every failure the environment produced ends in a non-zero status
\* with that failure's description printed; nothing is ever simulated.
C9_ProberNeverSwallows ==
    /\ prc = 0 =>
          /\ psession = "closed" /\ Count(pout, "CONNECTED") = 1
          /\ plisted = pcaps /\ pfault = <<>> /\ perror = <<>>
    /\ pfault # <<>> =>
          /\ ppc = "done" /\ prc \in {1, 2}
          /\ perror = pfault
          /\ (pfault = <<"no_runtime">> <=> prc = 2)
    /\ ppc = "done" => prc # -1
    /\ Count(pout, "SIMULATED") = 0

\* an authentication failure was reported with status 1
C9_Witness == ppc = "done" /\ pfault = <<"auth_failed">> /\ prc = 1

\* C10: the real attempt comes first; after a non-error edit-config reply the
\* Simulated Applier is never invoked; a push that ends having read a
\* document invoked it exactly once if no reply was received and not at all
\* otherwise; the real path is tried at most once.
C10_SimulatedIffRealFailed ==
    /\ Reported("REAL") => simCalls = 0
    /\ simCalls <= 1 /\ connects <= 1
    /\ pc = "done" /\ xml_config # <<>> => (simCalls = 1 <=> ~Reported("REAL"))

====
